---------------------------- MODULE Spec2Model ----------------------------
(***************************************************************************)
(* Model of the excel-to-pdf converter: the cell reference codec           *)
(* (encodeCell / decodeCell), the cell text resolver (extractCellText) and *)
(* the layout pipeline of convertExcelToPdf (merge map, styled rows,       *)
(* column-width solver, page-size adjustment, row placement and drawing).  *)
(*                                                                         *)
(* Strings are sequences of character codes, as the code reads and builds  *)
(* them with charCodeAt / String.fromCharCode.  Non-integral numbers are   *)
(* exact rationals or decimals; IEEE rounding of doubles is not modelled.  *)
(***************************************************************************)
EXTENDS Integers, Sequences, FiniteSets, TLC

VARIABLES
  \* reference codec: the input, the first result, the round-trip result
  codecIn, codecMid, codecOut, codecPc,
  \* cell text resolver: the cell, the decimal-place default, the result
  cell, fixedAt, cellText, textPc,
  \* convertExcelToPdf, its inputs: worksheet.rowCount and columnCount,
  \* worksheet._merges in entry order, the populated cells, the
  \* enablePagination argument, worksheet.getImages() with the media of each
  totalRows, totalCols, merges, sheet, paginationArg, worksheetImages,
  \* convertExcelToPdf, its locals and the document it draws
  pc, mergeIdx, mergeMap, styledRows, colWidths, solveAt, lastSolve,
  enablePagination, pageWidth, pageHeight, images, imgAt,
  x, y, drawAt, page, cmds

codecVars == <<codecIn, codecMid, codecOut, codecPc>>
textVars == <<cell, fixedAt, cellText, textPc>>
inputVars ==
  <<totalRows, totalCols, merges, sheet, paginationArg, worksheetImages>>
mapVars == <<mergeIdx, mergeMap, styledRows>>
solverVars == <<colWidths, solveAt, lastSolve>>
pageVars == <<enablePagination, pageWidth, pageHeight>>
imageVars == <<images, imgAt>>
drawVars == <<x, y, drawAt, page, cmds>>
pipeVars ==
  <<inputVars, pc, mapVars, solverVars, pageVars, imageVars, drawVars>>
vars == <<codecVars, textVars, pipeVars>>
\* what an action of one component leaves alone
notCodec == <<textVars, pipeVars>>
notText == <<codecVars, pipeVars>>
notPipe == <<codecVars, textVars>>

Null == [null |-> TRUE]

\* The values the variables of a component hold while another one runs.
CodecIdle ==
  codecIn = Null /\ codecMid = Null /\ codecOut = Null /\ codecPc = "idle"

TextIdle ==
  cell = Null /\ fixedAt = 0 /\ cellText = Null /\ textPc = "idle"

PipeIdle ==
  /\ totalRows = 0 /\ totalCols = 0 /\ merges = <<>> /\ sheet = <<>>
  /\ paginationArg = FALSE /\ worksheetImages = <<>> /\ pc = "idle"
  /\ images = <<>> /\ imgAt = 0
  /\ mergeIdx = 0 /\ mergeMap = <<>> /\ styledRows = <<>>
  /\ colWidths = <<>> /\ solveAt = Null /\ lastSolve = Null
  /\ enablePagination = FALSE /\ pageWidth = Null /\ pageHeight = 0
  /\ x = Null /\ y = 0 /\ drawAt = Null /\ page = 0 /\ cmds = <<>>

(***************************************************************************)
(* Characters                                                              *)
(***************************************************************************)
ChA == 65
ChZ == 90
Ch0 == 48
Ch9 == 57

IsUpper(ch) == ch >= ChA /\ ch <= ChZ
IsDigit(ch) == ch >= Ch0 /\ ch <= Ch9

(***************************************************************************)
(* Number -> string for a non-negative integer below 1e21: its decimal     *)
(* digits, no leading zero (the template literal `${row}`).                *)
(***************************************************************************)
RECURSIVE NumToString(_)
NumToString(n) ==
  IF n < 10 THEN <<Ch0 + n>>
  ELSE Append(NumToString(n \div 10), Ch0 + (n % 10))

(***************************************************************************)
(* parseInt(digits, 10) on a string of decimal digits.                     *)
(***************************************************************************)
RECURSIVE ParseInt(_)
ParseInt(digits) ==
  IF digits = <<>> THEN 0
  ELSE 10 * ParseInt(SubSeq(digits, 1, Len(digits) - 1))
         + (digits[Len(digits)] - Ch0)

(***************************************************************************)
(* encodeCell(row, col)                                                    *)
(***************************************************************************)
RECURSIVE EncodeLoop(_, _)
EncodeLoop(col, colLetters) ==
  IF col > 0
    THEN LET remainder == (col - 1) % 26
         IN  EncodeLoop((col - 1) \div 26, <<ChA + remainder>> \o colLetters)
    ELSE colLetters

RECURSIVE EncodeLoopZeroBased(_, _)
EncodeLoopZeroBased(col, colLetters) ==
  IF col > 0
    THEN LET remainder == (col - 1) % 26
         IN  EncodeLoopZeroBased(col \div 26, <<ChA + remainder>> \o colLetters)
    ELSE colLetters

encodeCellNoCarry(row, col) == EncodeLoopZeroBased(col, <<>>) \o NumToString(row)

encodeCell(row, col) == EncodeLoop(col, <<>>) \o NumToString(row)

(***************************************************************************)
(* decodeCell(ref): the match of /^([A-Z]+)(\d+)$/ is the longest prefix   *)
(* of upper-case letters followed, up to the end of the string, by digits  *)
(* only; the two classes are disjoint, so the greedy split is the only     *)
(* one.  A failed match throws.                                            *)
(***************************************************************************)
RECURSIVE UpperPrefixLen(_)
UpperPrefixLen(s) ==
  IF s # <<>> /\ IsUpper(Head(s)) THEN 1 + UpperPrefixLen(Tail(s)) ELSE 0

RECURSIVE DigitPrefixLen(_)
DigitPrefixLen(s) ==
  IF s # <<>> /\ IsDigit(Head(s)) THEN 1 + DigitPrefixLen(Tail(s)) ELSE 0

RefMatch(ref) ==
  LET k    == UpperPrefixLen(ref)
      rest == SubSeq(ref, k + 1, Len(ref))
  IN  IF k >= 1 /\ rest # <<>> /\ DigitPrefixLen(rest) = Len(rest)
        THEN [matched |-> TRUE, letters |-> SubSeq(ref, 1, k), digits |-> rest]
        ELSE [matched |-> FALSE]

RefMatchUnanchored(ref) ==
  LET k    == UpperPrefixLen(ref)
      rest == SubSeq(ref, k + 1, Len(ref))
      d    == DigitPrefixLen(rest)
  IN  IF k >= 1 /\ d >= 1
        THEN [matched |-> TRUE, letters |-> SubSeq(ref, 1, k),
              digits |-> SubSeq(rest, 1, d)]
        ELSE [matched |-> FALSE]

RECURSIVE ColumnOfZeroBased(_, _)
ColumnOfZeroBased(colLetters, col) ==
  IF colLetters = <<>> THEN col
  ELSE ColumnOfZeroBased(Tail(colLetters), col * 26 + (Head(colLetters) - 65))

RECURSIVE ColumnOf(_, _)
ColumnOf(colLetters, col) ==
  IF colLetters = <<>> THEN col
  ELSE ColumnOf(Tail(colLetters), col * 26 + (Head(colLetters) - 64))

decodeCellLoose(ref) ==
  LET match == RefMatchUnanchored(ref)
  IN  IF ~match.matched
        THEN [threw |-> TRUE, error |-> "Invalid cell reference"]
        ELSE [threw |-> FALSE,
              row |-> ParseInt(match.digits),
              col |-> ColumnOf(match.letters, 0)]

decodeCell(ref) ==
  LET match == RefMatch(ref)
  IN  IF ~match.matched
        THEN [threw |-> TRUE, error |-> "Invalid cell reference"]
        ELSE [threw |-> FALSE,
              row |-> ParseInt(match.digits),
              col |-> ColumnOf(match.letters, 0)]

(***************************************************************************)
(* Inputs of the codec specification.                                      *)
(***************************************************************************)
MaxCodecRow == 101
MaxCodecCol == 730
MaxRefLen == 4

\* 'A' 'B' 'Z', '0' '1' '9', and '-' 'a' '@' '[' which no class accepts
RefAlphabet == {65, 66, 90, 48, 49, 57, 45, 97, 64, 91}

RefStrings == UNION {[1..n -> RefAlphabet] : n \in 0..MaxRefLen}

CodecInit ==
  /\ TextIdle /\ PipeIdle
  /\ codecPc = "start"
  /\ codecMid = Null
  /\ codecOut = Null
  /\ \/ \E r \in 1..MaxCodecRow, c \in 1..MaxCodecCol :
          codecIn = [kind |-> "pair", row |-> r, col |-> c]
     \/ \E s \in RefStrings : codecIn = [kind |-> "ref", ref |-> s]

\* encodeCell(r, c) on an input pair
EncodeInput ==
  /\ codecPc = "start" /\ codecIn.kind = "pair"
  /\ codecMid' = encodeCell(codecIn.row, codecIn.col)
  /\ codecPc' = "mid"
  /\ UNCHANGED <<codecIn, codecOut, notCodec>>

\* decodeCell on the string encodeCell returned
DecodeEncoded ==
  /\ codecPc = "mid" /\ codecIn.kind = "pair"
  /\ codecOut' = decodeCell(codecMid)
  /\ codecPc' = "done"
  /\ UNCHANGED <<codecIn, codecMid, notCodec>>

\* decodeCell(s) on an input string
DecodeInput ==
  /\ codecPc = "start" /\ codecIn.kind = "ref"
  /\ codecMid' = decodeCell(codecIn.ref)
  /\ codecPc' = IF codecMid'.threw THEN "done" ELSE "mid"
  /\ UNCHANGED <<codecIn, codecOut, notCodec>>

\* encodeCell on the pair decodeCell returned
EncodeDecoded ==
  /\ codecPc = "mid" /\ codecIn.kind = "ref"
  /\ codecOut' = encodeCell(codecMid.row, codecMid.col)
  /\ codecPc' = "done"
  /\ UNCHANGED <<codecIn, codecMid, notCodec>>

CodecNext == EncodeInput \/ DecodeEncoded \/ DecodeInput \/ EncodeDecoded

SpecCodec == CodecInit /\ [][CodecNext]_vars

(***************************************************************************)
(* Claims about the reference codec (checked under SpecCodec).             *)
(***************************************************************************)

\* "One or more upper-case letters followed by one or more digits", stated
\* on the string itself.
HasRefShape(s) ==
  \E k \in 1..(Len(s) - 1) :
    /\ \A i \in 1..k : IsUpper(s[i])
    /\ \A i \in (k + 1)..Len(s) : IsDigit(s[i])

\* The digit part of a string of that shape is a canonical decimal numeral:
\* a single digit, or a first digit other than '0'.
HasCanonicalRow(s) ==
  \E k \in 1..(Len(s) - 1) :
    /\ \A i \in 1..k : IsUpper(s[i])
    /\ \A i \in (k + 1)..Len(s) : IsDigit(s[i])
    /\ (k + 1 = Len(s) \/ s[k + 1] # Ch0)

\* C1: for all integers r >= 1 and c >= 1, decodeCell(encodeCell(r, c))
\* returns exactly {row: r, col: c} (it does not throw).
C1_DecodeEncodeRoundTrip ==
  (codecPc = "done" /\ codecIn.kind = "pair") =>
    codecOut = [threw |-> FALSE, row |-> codecIn.row, col |-> codecIn.col]

\* C1 witness: a three-letter column (AAA = 703 and beyond) with a
\* three-digit row has been encoded and decoded back.
C1_Witness ==
  /\ codecPc = "done" /\ codecIn.kind = "pair"
  /\ codecIn.col >= 703 /\ codecIn.row >= 100
  /\ Len(codecMid) = 6
  /\ codecOut.col = codecIn.col /\ codecOut.row = codecIn.row

\* C2 as stated: for every string s of the reference shape, leading zeros
\* included, encodeCell(decodeCell(s).row, decodeCell(s).col) equals s.
C2_EncodeDecodeAnyValidRef ==
  (codecPc = "done" /\ codecIn.kind = "ref" /\ HasRefShape(codecIn.ref)) =>
    codecOut = codecIn.ref

\* C2 amended: for every string s of the reference shape whose digit part is
\* a canonical numeral (no leading zero unless it is the single digit 0),
\* decodeCell(s) succeeds and encodeCell of its row and col equals s.
C2_EncodeDecodeCanonicalRef ==
  (codecPc = "done" /\ codecIn.kind = "ref" /\ HasRefShape(codecIn.ref)
     /\ HasCanonicalRow(codecIn.ref)) =>
    /\ codecMid.threw = FALSE
    /\ codecOut = codecIn.ref

\* C2 witness: "ZB19" (two letters, two digits, no leading zero) has been
\* decoded and encoded back to itself.
C2_Witness ==
  /\ codecPc = "done" /\ codecIn.kind = "ref"
  /\ codecIn.ref = <<90, 66, 49, 57>>
  /\ codecMid = [threw |-> FALSE, row |-> 19, col |-> 26 * 26 + 2]
  /\ codecOut = codecIn.ref

\* C3: decodeCell throws the invalid-reference error, and returns no
\* {row, col}, for every string that is not one or more upper-case letters
\* followed by one or more digits ("1A", "A-1" and "" among them); it never
\* throws for a string of that shape.
C3_DecodeThrowsIffMalformed ==
  (codecIn.kind = "ref" /\ codecPc # "start") =>
    /\ codecMid.threw <=> ~HasRefShape(codecIn.ref)
    /\ codecMid.threw =>
         /\ codecMid.error = "Invalid cell reference"
         /\ DOMAIN codecMid = {"threw", "error"}
         /\ codecPc = "done" /\ codecOut = Null
    /\ codecIn.ref \in {<<49, 65>>, <<65, 45, 49>>, <<>>} => codecMid.threw

\* C3 witness: decodeCell("A-1") has thrown.
C3_Witness ==
  /\ codecIn.kind = "ref" /\ codecPc = "done"
  /\ codecIn.ref = <<65, 45, 49>>
  /\ codecMid.threw

(***************************************************************************)
(* Cell text resolver: extractCellText(cell, fixedAt).                     *)
(*                                                                         *)
(* A number is a decimal [neg, m, s] = (-1)^neg * m / 10^s with m % 10 # 0 *)
(* when s > 0.  The inputs are exactly representable in binary (integers   *)
(* and multiples of 1/8), so toFixed's ties round as the decimal does.     *)
(***************************************************************************)
ChDot == 46
ChMinus == 45
ChEquals == 61
ChParen == 40
ChHash == 35
ChLowerA == 97
ChLowerZ == 122

Undef == [undefined |-> TRUE]

RECURSIVE Pow10(_)
Pow10(k) == IF k = 0 THEN 1 ELSE 10 * Pow10(k - 1)

\* String.prototype.includes / startsWith
Includes(str, sub) ==
  \E i \in 0..(Len(str) - Len(sub)) : SubSeq(str, i + 1, i + Len(sub)) = sub

StartsWith(str, sub) ==
  Len(str) >= Len(sub) /\ SubSeq(str, 1, Len(sub)) = sub

RECURSIVE PadZeros(_, _)
PadZeros(digits, width) ==
  IF Len(digits) >= width THEN digits ELSE PadZeros(<<Ch0>> \o digits, width)

\* Number.prototype.toString for a finite number of ordinary magnitude
NumberToString(v) ==
  LET ip   == v.m \div Pow10(v.s)
      fp   == v.m % Pow10(v.s)
      sign == IF v.neg /\ v.m # 0 THEN <<ChMinus>> ELSE <<>>
  IN  IF v.s = 0 THEN sign \o NumToString(ip)
      ELSE sign \o NumToString(ip) \o <<ChDot>> \o PadZeros(NumToString(fp), v.s)

\* Number.prototype.toFixed(k): the nearest multiple of 10^-k, the larger
\* magnitude on a tie, written with exactly k digits after the point
ToFixed(v, k) ==
  LET n == IF v.s <= k THEN v.m * Pow10(k - v.s)
           ELSE LET p == Pow10(v.s - k)
                IN  (v.m \div p) + (IF 2 * (v.m % p) >= p THEN 1 ELSE 0)
      digits == PadZeros(NumToString(n), k + 1)
      sign   == IF v.neg /\ v.m # 0 THEN <<ChMinus>> ELSE <<>>
      cut    == Len(digits) - k
  IN  IF k = 0 THEN sign \o digits
      ELSE sign \o SubSeq(digits, 1, cut) \o <<ChDot>>
                \o SubSeq(digits, cut + 1, Len(digits))

\* format.match(/\.0+/): the first '.' that a '0' follows, with the zeros
\* after it; Null when there is none
RECURSIVE ZeroRun(_, _)
ZeroRun(str, i) ==
  IF i <= Len(str) /\ str[i] = Ch0 THEN 1 + ZeroRun(str, i + 1) ELSE 0

DecimalMatch(format) ==
  LET starts == {i \in 1..(Len(format) - 1) :
                   format[i] = ChDot /\ format[i + 1] = Ch0}
  IN  IF starts = {} THEN Null
      ELSE LET i == CHOOSE j \in starts : \A k \in starts : j <= k
           IN  SubSeq(format, i, i + ZeroRun(format, i + 1))

Fmt000 == <<Ch0, ChDot, Ch0, Ch0>>
FmtHash == <<ChHash, ChDot, ChHash, ChHash>>
Fmt00 == <<Ch0, ChDot, Ch0>>

HasDecimalFormat(format) ==
  Includes(format, Fmt000) \/ Includes(format, FmtHash) \/ Includes(format, Fmt00)

DecimalPlacesOffByOne(format, fixed) ==
  LET decimalMatch == DecimalMatch(format)
  IN  IF decimalMatch # Null THEN Len(decimalMatch) ELSE fixed

DecimalPlaces(format, fixed) ==
  LET decimalMatch == DecimalMatch(format)
  IN  IF decimalMatch # Null THEN Len(decimalMatch) - 1 ELSE fixed

\* String.prototype.toUpperCase on ASCII
ToUpperCase(str) ==
  [i \in 1..Len(str) |->
     IF str[i] >= ChLowerA /\ str[i] <= ChLowerZ THEN str[i] - 32 ELSE str[i]]

\* String(x) of a primitive
StringOf(val) ==
  CASE val.t = "number" -> NumberToString(val.num)
    [] val.t = "string" -> val.str
    [] val.t = "boolean" -> IF val.b THEN <<116, 114, 117, 101>>
                                 ELSE <<102, 97, 108, 115, 101>>

\* truthiness of a field that holds a string or is undefined
Truthy(f) == f # Undef /\ f.str # <<>>

\* richText.map(part => part.text || "").join("")
RECURSIVE JoinParts(_)
JoinParts(parts) ==
  IF parts = <<>> THEN <<>>
  ELSE (IF Truthy(Head(parts).text) THEN Head(parts).text.str ELSE <<>>)
         \o JoinParts(Tail(parts))

\* lines 13-90: cell.value is an object
ObjectText(c, fixed) ==
  LET v == c.value
  IN  IF v.result # Undef
        THEN IF v.result.t = "number"
               THEN IF HasDecimalFormat(c.numFmt)
                      THEN ToFixed(v.result.num, DecimalPlaces(c.numFmt, fixed))
                      ELSE NumberToString(v.result.num)
               ELSE StringOf(v.result)
      ELSE IF v.richText # Undef THEN JoinParts(v.richText.parts)
      ELSE IF Truthy(v.hyperlink) /\ Truthy(v.text) THEN v.text.str
      ELSE IF Truthy(v.text) THEN v.text.str
      ELSE IF Truthy(v.formula)
        THEN IF Truthy(v.error) THEN <<ChHash>> \o ToUpperCase(v.error.str)
             ELSE IF c.text # <<>> THEN c.text
             ELSE <<ChEquals>> \o v.formula.str
      ELSE IF Truthy(v.sharedFormula)
        THEN IF c.text # <<>> THEN c.text ELSE <<Ch0>>
      ELSE <<>>

NumericTextIgnoringCache(c, fixed) ==
  IF HasDecimalFormat(c.numFmt)
    THEN ToFixed(c.value.num, DecimalPlaces(c.numFmt, fixed))
  ELSE NumberToString(c.value.num)

\* lines 93-122: cell.value is a number
NumericText(c, fixed) ==
  IF HasDecimalFormat(c.numFmt)
    THEN ToFixed(c.value.num, DecimalPlaces(c.numFmt, fixed))
  ELSE IF /\ c.text # <<>> /\ Includes(c.text, <<ChDot>>)
          /\ ~StartsWith(c.text, <<ChEquals>>)
          /\ ~Includes(c.text, <<ChParen>>)
    THEN c.text
  ELSE NumberToString(c.value.num)

\* extractCellText; a string value that is an ISO date literal (lines
\* 130-141, formatted by the host locale) is not among the inputs
extractCellText(c, fixed) ==
  IF c.value.t = "null" THEN <<>>
  ELSE IF c.value.t = "object" THEN ObjectText(c, fixed)
  ELSE IF c.value.t = "number" THEN NumericText(c, fixed)
  ELSE IF c.text # <<>> THEN c.text
  ELSE StringOf(c.value)

(***************************************************************************)
(* Inputs of the resolver specification.                                   *)
(***************************************************************************)
MaxFixedAt == 3

Num(neg, m, s) == [t |-> "number", num |-> [neg |-> neg, m |-> m, s |-> s]]
Str(chars) == [t |-> "string", str |-> chars]

\* 0, 7, 700, 3.5, 2.25, -1.5, 0.125, 1234.5
TextNumbers ==
  {Num(FALSE, 0, 0), Num(FALSE, 7, 0), Num(FALSE, 700, 0), Num(FALSE, 35, 1),
   Num(FALSE, 225, 2), Num(TRUE, 15, 1), Num(FALSE, 125, 3),
   Num(FALSE, 12345, 1)}

\* "", "0.00", "#.##", "0.0", "0.000", "#,##0.00", "0", "General",
\* "#.##0.000", "0.0.00"
TextFormats ==
  {<<>>, Fmt000, FmtHash, Fmt00, <<48, 46, 48, 48, 48>>,
   <<35, 44, 35, 35, 48, 46, 48, 48>>, <<48>>,
   <<71, 101, 110, 101, 114, 97, 108>>,
   <<35, 46, 35, 35, 48, 46, 48, 48, 48>>, <<48, 46, 48, 46, 48, 48>>}

\* The rendered text the worksheet reader caches for a cell: none, a formula
\* display ("=1.5", "(1.5)"), a label ("ab"), and for a number its digits as
\* they are or with one or two decimals
CachedTexts(v) ==
  {<<>>, <<61, 49, 46, 53>>, <<40, 49, 46, 53, 41>>, <<97, 98>>}
    \cup (IF v.t = "number"
           THEN {NumberToString(v.num), ToFixed(v.num, 1), ToFixed(v.num, 2)}
           ELSE {})

Obj(result, richText, hyperlink, text, formula, error, sharedFormula) ==
  [t |-> "object", result |-> result, richText |-> richText,
   hyperlink |-> hyperlink, text |-> text, formula |-> formula,
   error |-> error, sharedFormula |-> sharedFormula]

\* "A1", "n/a", "ab", "x"
StrA1 == Str(<<65, 49>>)
StrNa == Str(<<110, 47, 97>>)
StrAb == Str(<<97, 98>>)
StrX == Str(<<120>>)

RichText(parts) == [t |-> "array", parts |-> parts]

TextObjects ==
  {Obj(Num(FALSE, 35, 1), Undef, Undef, Undef, StrA1, Undef, Undef),
   Obj(StrAb, Undef, Undef, Undef, StrA1, Undef, Undef),
   Obj(Undef, RichText(<<[text |-> StrAb], [text |-> Undef], [text |-> StrX]>>),
       Undef, Undef, Undef, Undef, Undef),
   Obj(Undef, Undef, StrX, StrAb, Undef, Undef, Undef),
   Obj(Undef, Undef, Undef, StrAb, Undef, Undef, Undef),
   Obj(Undef, Undef, Undef, Undef, StrA1, StrNa, Undef),
   Obj(Num(FALSE, 35, 1), Undef, Undef, Undef, StrA1, StrNa, Undef),
   Obj(Undef, RichText(<<[text |-> StrX]>>), Undef, Undef, StrA1, StrNa, Undef),
   Obj(Undef, Undef, Undef, StrAb, StrA1, StrNa, Undef),
   Obj(Undef, Undef, Undef, Undef, StrA1, Undef, Undef),
   Obj(Undef, Undef, Undef, Undef, Undef, Undef, StrA1),
   Obj(Undef, Undef, Undef, Undef, Undef, Undef, Undef)}

TextValues ==
  TextNumbers \cup TextObjects
    \cup {[t |-> "null"], StrAb, [t |-> "boolean", b |-> TRUE]}

TextInit ==
  /\ CodecIdle /\ PipeIdle
  /\ textPc = "start"
  /\ cellText = Null
  /\ fixedAt \in 0..MaxFixedAt
  /\ \E v \in TextValues, f \in TextFormats :
       \E tx \in CachedTexts(v) :
         cell = [value |-> v, numFmt |-> f, text |-> tx]

\* extractCellText(cell, fixedAt)
ExtractText ==
  /\ textPc = "start"
  /\ cellText' = extractCellText(cell, fixedAt)
  /\ textPc' = "done"
  /\ UNCHANGED <<cell, fixedAt, notText>>

TextNext == ExtractText

SpecText == TextInit /\ [][TextNext]_vars

(***************************************************************************)
(* Claims about the resolver (checked under SpecText).                     *)
(***************************************************************************)

\* the number of characters after the first '.', 0 without one
DecimalsOf(str) ==
  IF \E i \in 1..Len(str) : str[i] = ChDot
    THEN Len(str) - (CHOOSE i \in 1..Len(str) :
                       str[i] = ChDot /\ \A j \in 1..(i - 1) : str[j] # ChDot)
    ELSE 0

\* the hint contains "0.00", "#.##" or "0.0"
HintForcesDecimals(h) ==
  \E i \in 1..Len(h) :
    \/ i + 3 <= Len(h) /\ h[i] = Ch0 /\ h[i + 1] = ChDot /\ h[i + 2] = Ch0
         /\ h[i + 3] = Ch0
    \/ i + 3 <= Len(h) /\ h[i] = ChHash /\ h[i + 1] = ChDot
         /\ h[i + 2] = ChHash /\ h[i + 3] = ChHash
    \/ i + 2 <= Len(h) /\ h[i] = Ch0 /\ h[i + 1] = ChDot /\ h[i + 2] = Ch0

\* the number of zeros in the first run of zeros that follows a dot, or the
\* default when no zero follows any dot
HintDecimals(h, default) ==
  LET dots == {i \in 1..(Len(h) - 1) : h[i] = ChDot /\ h[i + 1] = Ch0}
  IN  IF dots = {} THEN default
      ELSE LET i == CHOOSE d \in dots : \A e \in dots : d <= e
           IN  CHOOSE n \in 1..Len(h) :
                 /\ \A j \in 1..n : i + j <= Len(h) /\ h[i + j] = Ch0
                 /\ (i + n + 1 > Len(h) \/ h[i + n + 1] # Ch0)

\* str is the natural representation of the decimal v: the integer's digits
\* when v is integral, otherwise v's own digits with no trailing zero
IsNaturalText(str, v) ==
  LET sign == IF v.neg /\ v.m # 0 THEN <<ChMinus>> ELSE <<>>
  IN  IF v.s = 0 THEN str = sign \o NumToString(v.m)
      ELSE /\ DecimalsOf(str) = v.s
           /\ ParseInt(SelectSeq(str, IsDigit)) = v.m
           /\ str[Len(str)] # Ch0
           /\ SubSeq(str, 1, Len(sign)) = sign
           /\ \A i \in 1..Len(str) :
                IsDigit(str[i]) \/ str[i] = ChDot \/ (i = 1 /\ str[i] = ChMinus)

\* the cached rendered text the code prefers to the number's own digits
CacheShowsDecimals(tx) ==
  /\ \E i \in 1..Len(tx) : tx[i] = ChDot
  /\ tx[1] # ChEquals
  /\ \A i \in 1..Len(tx) : tx[i] # ChParen

Str700 == <<55, 48, 48>>
Str700_00 == <<55, 48, 48, 46, 48, 48>>
Str3_5 == <<51, 46, 53>>

\* C10 as stated: for a number cell, a hint containing "0.00", "#.##" or
\* "0.0" gives exactly k decimals (k the zeros after the hint's first dot
\* followed by a zero, else the default); any other hint gives the natural
\* representation whatever the cached rendered text is (700 -> "700",
\* 700 with "0.00" -> "700.00", 3.5 -> "3.5").
C10_NumberTextIgnoresCache ==
  (textPc = "done" /\ cell.value.t = "number") =>
    IF HintForcesDecimals(cell.numFmt)
      THEN DecimalsOf(cellText) = HintDecimals(cell.numFmt, fixedAt)
      ELSE IsNaturalText(cellText, cell.value.num)

\* C10 amended: with a forcing hint the text has exactly k decimals; without
\* one the text is the cached rendered text when that contains a '.', does
\* not start with '=' and contains no '(', and otherwise the natural
\* representation of the number.
C10_NumberText ==
  (textPc = "done" /\ cell.value.t = "number") =>
    /\ IF HintForcesDecimals(cell.numFmt)
         THEN DecimalsOf(cellText) = HintDecimals(cell.numFmt, fixedAt)
         ELSE IF CacheShowsDecimals(cell.text)
           THEN cellText = cell.text
           ELSE IsNaturalText(cellText, cell.value.num)
    /\ (cell.value = Num(FALSE, 700, 0) /\ cell.numFmt = Fmt000)
         => cellText = Str700_00
    /\ (cell.value = Num(FALSE, 700, 0) /\ cell.numFmt = <<>>
          /\ ~CacheShowsDecimals(cell.text)) => cellText = Str700
    /\ (cell.value = Num(FALSE, 35, 1) /\ cell.numFmt = <<>>
          /\ ~CacheShowsDecimals(cell.text)) => cellText = Str3_5

\* C10 witness: 700 under the hint "0.000" with cached text "700" has been
\* resolved to three forced decimals, the default being another count.
C10_Witness ==
  /\ textPc = "done"
  /\ cell.value = Num(FALSE, 700, 0)
  /\ cell.numFmt = <<48, 46, 48, 48, 48>>
  /\ cell.text = Str700
  /\ fixedAt = 2
  /\ cellText = <<55, 48, 48, 46, 48, 48, 48>>

(***************************************************************************)
(* convertExcelToPdf (excel-to-pdf.js).                                    *)
(*                                                                         *)
(* Widths and x coordinates are exact rationals [n, d], d > 0, in lowest   *)
(* terms: the solver divides a deficit by the number of spanned columns.   *)
(* A cell's text is a token and tw the width jsPDF measures for it under   *)
(* the cell's font (getTextWidth, outside the repository).                 *)
(***************************************************************************)
RECURSIVE GCD(_, _)
GCD(a, b) == IF b = 0 THEN a ELSE GCD(b, a % b)

RNorm(n, d) ==
  LET g == GCD(IF n < 0 THEN -n ELSE n, d)
  IN  [n |-> n \div g, d |-> d \div g]

RInt(k) == [n |-> k, d |-> 1]
RAdd(a, b) == RNorm(a.n * b.d + b.n * a.d, a.d * b.d)
RSub(a, b) == RNorm(a.n * b.d - b.n * a.d, a.d * b.d)
RDivInt(a, k) == RNorm(a.n, a.d * k)
RLess(a, b) == a.n * b.d < b.n * a.d

\* array.reduce((sum, w) => sum + w, 0)
RECURSIVE RSum(_)
RSum(ws) == IF ws = <<>> THEN RInt(0) ELSE RAdd(Head(ws), RSum(Tail(ws)))

\* array.slice(from, to) with 0-based from (inclusive) and to (exclusive)
Slice(arr, from, to) ==
  SubSeq(arr, from + 1, IF to > Len(arr) THEN Len(arr) ELSE to)

padding == 10
extraSpace == 10
rowHeight == 20
margin == 50
MAX_SIZE == 14400
LETTER_HEIGHT == 792
fontSize == 12
ChColon == 58

Sides == <<"top", "left", "bottom", "right">>

EmptyStyle ==
  [fill |-> FALSE, align |-> "left",
   border |-> [sd \in {"top", "left", "bottom", "right"} |-> "unset"]]

\* worksheet.getRow(r).getCell(c) with its extracted text: an unpopulated
\* cell has a null value, hence the text "" and no style
EmptyCell == [text |-> "", tw |-> 0, style |-> EmptyStyle]

GetCell(r, c) ==
  IF <<r, c>> \in DOMAIN sheet THEN sheet[<<r, c>>] ELSE EmptyCell

RegionCells(m) == (m.top..m.bottom) \X (m.left..m.right)

\* lines 55-61: the entry written for every cell of a region
MergeEntry(m) ==
  [range |-> NumToString(m.top) \o <<ChMinus>> \o NumToString(m.left)
               \o <<ChColon>> \o NumToString(m.bottom) \o <<ChMinus>>
               \o NumToString(m.right),
   startRow |-> m.top, startCol |-> m.left,
   endRow |-> m.bottom, endCol |-> m.right]

\* lines 51-64: one region written into the map, over what is there
PutRegionKeepFirst(map, m) ==
  [k \in DOMAIN map \cup RegionCells(m) |->
     IF k \in DOMAIN map THEN map[k] ELSE MergeEntry(m)]

PutRegion(map, m) ==
  [k \in DOMAIN map \cup RegionCells(m) |->
     IF k \in RegionCells(m) THEN MergeEntry(m) ELSE map[k]]

\* lines 73-77: part of a merge and not its main cell
IsSecondaryKeyRowOnly(map, rowNumber, colNumber) ==
  /\ <<rowNumber, colNumber>> \in DOMAIN map
  /\ rowNumber # map[<<rowNumber, colNumber>>].startRow

IsSecondaryKey(map, rowNumber, colNumber) ==
  /\ <<rowNumber, colNumber>> \in DOMAIN map
  /\ \/ rowNumber # map[<<rowNumber, colNumber>>].startRow
     \/ colNumber # map[<<rowNumber, colNumber>>].startCol

\* lines 70-97: the styled cell pushed for (rowNumber, colNumber); mergeInfo
\* is the map's own entry object, held here by its key
StyledCell(map, rowNumber, colNumber) ==
  IF IsSecondaryKey(map, rowNumber, colNumber)
    THEN [text |-> "", tw |-> 0, style |-> EmptyStyle, mergeInfo |-> Null,
          isSecondaryMergeCell |-> TRUE]
    ELSE LET c == GetCell(rowNumber, colNumber)
         IN  [text |-> c.text, tw |-> c.tw, style |-> c.style,
              mergeInfo |-> IF <<rowNumber, colNumber>> \in DOMAIN map
                              THEN [key |-> <<rowNumber, colNumber>>]
                              ELSE Null,
              isSecondaryMergeCell |-> FALSE]

\* lines 102-106: every entry's range rewritten as "<start>:<end>"
AdjustedRanges(map) ==
  [k \in DOMAIN map |->
     [map[k] EXCEPT !.range =
        encodeCell(map[k].startRow, map[k].startCol) \o <<ChColon>>
          \o encodeCell(map[k].endRow, map[k].endCol)]]

\* lines 51-64, one entry of worksheet._merges
AddRegion ==
  /\ pc = "merges" /\ mergeIdx < Len(merges)
  /\ mergeIdx' = mergeIdx + 1
  /\ mergeMap' = PutRegion(mergeMap, merges[mergeIdx + 1])
  /\ UNCHANGED <<inputVars, pc, styledRows, solverVars, pageVars, drawVars,
                 imageVars, notPipe>>

\* lines 67-99, one row; after the last row, lines 102-118
BuildRow ==
  /\ \/ pc = "merges" /\ mergeIdx = Len(merges)
     \/ pc = "rows"
  /\ LET rowNumber == Len(styledRows) + 1
         cells == [colNumber \in 1..totalCols |->
                     StyledCell(mergeMap, rowNumber, colNumber)]
     IN  /\ styledRows' = Append(styledRows, cells)
         /\ IF rowNumber = totalRows
              THEN /\ pc' = "widths"
                   /\ mergeMap' = AdjustedRanges(mergeMap)
                   /\ colWidths' = [i \in 1..totalCols |-> RInt(padding)]
                   /\ solveAt' = [row |-> 1, col |-> 1]
              ELSE /\ pc' = "rows"
                   /\ UNCHANGED <<mergeMap, colWidths, solveAt>>
  /\ UNCHANGED <<inputVars, mergeIdx, lastSolve, pageVars, drawVars,
                 imageVars, notPipe>>

\* lines 142-158: a merge anchor widens its spanned columns by equal shares
\* of what the merged width lacks
WidenSpanShortLoop(widths, entry, textWidth) ==
  LET mergedWidth == RSum(Slice(widths, entry.startCol - 1, entry.endCol))
      extraWidth == RSub(textWidth, mergedWidth)
      numCols == entry.endCol - entry.startCol + 1
      additionalWidthPerCol == RDivInt(extraWidth, numCols)
  IN  IF RLess(mergedWidth, textWidth)
        THEN [i \in 1..Len(widths) |->
                IF i - 1 >= entry.startCol - 1 /\ i - 1 < entry.endCol - 1
                  THEN RAdd(widths[i], additionalWidthPerCol)
                  ELSE widths[i]]
        ELSE widths

WidenSpan(widths, entry, textWidth) ==
  LET mergedWidth == RSum(Slice(widths, entry.startCol - 1, entry.endCol))
      extraWidth == RSub(textWidth, mergedWidth)
      numCols == entry.endCol - entry.startCol + 1
      additionalWidthPerCol == RDivInt(extraWidth, numCols)
  IN  IF RLess(mergedWidth, textWidth)
        THEN [i \in 1..Len(widths) |->
                IF i - 1 >= entry.startCol - 1 /\ i - 1 < entry.endCol
                  THEN RAdd(widths[i], additionalWidthPerCol)
                  ELSE widths[i]]
        ELSE widths

\* line 140: the width the cell's text needs
TextWidth(c) == RInt(c.tw + padding + extraSpace)

SolveStepAssign(widths, map, c, idx) ==
  IF c.isSecondaryMergeCell THEN widths
  ELSE IF c.mergeInfo # Null
    THEN WidenSpan(widths, map[c.mergeInfo.key], TextWidth(c))
  ELSE [widths EXCEPT ![idx + 1] = TextWidth(c)]

\* lines 122-165: the solver's callback for the cell at 0-based index idx
SolveStep(widths, map, c, idx) ==
  IF c.isSecondaryMergeCell THEN widths
  ELSE IF c.mergeInfo # Null
    THEN WidenSpan(widths, map[c.mergeInfo.key], TextWidth(c))
  ELSE IF RLess(widths[idx + 1], TextWidth(c))
    THEN [widths EXCEPT ![idx + 1] = TextWidth(c)]
  ELSE widths

\* lines 167-208: the page size, capped, and whether rows are paginated
PageSizeNoForcedPagination(tableWidth, rows, paginate) ==
  LET tableHeight == rows * rowHeight + 10
      width == RAdd(tableWidth, RInt(margin * 2))
      height == tableHeight + margin * 2 + 40
      wide == RLess(RInt(MAX_SIZE), width)
      capped == IF wide THEN RInt(MAX_SIZE) ELSE width
  IN  IF wide \/ height > MAX_SIZE
        THEN IF height > MAX_SIZE /\ ~paginate
               THEN [pageWidth |-> capped, pageHeight |-> LETTER_HEIGHT,
                     enablePagination |-> paginate]
             ELSE IF wide /\ height <= MAX_SIZE /\ ~paginate
               THEN [pageWidth |-> RInt(MAX_SIZE), pageHeight |-> height,
                     enablePagination |-> paginate]
             ELSE IF paginate
               THEN [pageWidth |-> capped, pageHeight |-> LETTER_HEIGHT,
                     enablePagination |-> paginate]
             ELSE [pageWidth |-> width, pageHeight |-> height,
                   enablePagination |-> paginate]
        ELSE [pageWidth |-> width, pageHeight |-> height,
              enablePagination |-> paginate]

PageSizeWidthNotCapped(tableWidth, rows, paginate) ==
  LET tableHeight == rows * rowHeight + 10
      width == RAdd(tableWidth, RInt(margin * 2))
      height == tableHeight + margin * 2 + 40
      wide == RLess(RInt(MAX_SIZE), width)
  IN  IF wide \/ height > MAX_SIZE
        THEN IF height > MAX_SIZE /\ ~paginate
               THEN [pageWidth |-> width, pageHeight |-> LETTER_HEIGHT,
                     enablePagination |-> TRUE]
             ELSE IF wide /\ height <= MAX_SIZE /\ ~paginate
               THEN [pageWidth |-> width, pageHeight |-> height,
                     enablePagination |-> paginate]
             ELSE IF paginate
               THEN [pageWidth |-> width, pageHeight |-> LETTER_HEIGHT,
                     enablePagination |-> paginate]
             ELSE [pageWidth |-> width, pageHeight |-> height,
                   enablePagination |-> paginate]
        ELSE [pageWidth |-> width, pageHeight |-> height,
              enablePagination |-> paginate]

PageSizeLetterWhenPaginated(tableWidth, rows, paginate) ==
  LET tableHeight == rows * rowHeight + 10
      width == RAdd(tableWidth, RInt(margin * 2))
      height == tableHeight + margin * 2 + 40
      wide == RLess(RInt(MAX_SIZE), width)
      capped == IF wide THEN RInt(MAX_SIZE) ELSE width
  IN  IF height > MAX_SIZE /\ ~paginate
        THEN [pageWidth |-> capped, pageHeight |-> LETTER_HEIGHT,
              enablePagination |-> TRUE]
      ELSE IF paginate
        THEN [pageWidth |-> capped, pageHeight |-> LETTER_HEIGHT,
              enablePagination |-> paginate]
      ELSE [pageWidth |-> capped, pageHeight |-> height,
            enablePagination |-> paginate]

PageSize(tableWidth, rows, paginate) ==
  LET tableHeight == rows * rowHeight + 10
      width == RAdd(tableWidth, RInt(margin * 2))
      height == tableHeight + margin * 2 + 40
      wide == RLess(RInt(MAX_SIZE), width)
      capped == IF wide THEN RInt(MAX_SIZE) ELSE width
  IN  IF wide \/ height > MAX_SIZE
        THEN IF height > MAX_SIZE /\ ~paginate
               THEN [pageWidth |-> capped, pageHeight |-> LETTER_HEIGHT,
                     enablePagination |-> TRUE]
             ELSE IF wide /\ height <= MAX_SIZE /\ ~paginate
               THEN [pageWidth |-> RInt(MAX_SIZE), pageHeight |-> height,
                     enablePagination |-> paginate]
             ELSE IF paginate
               THEN [pageWidth |-> capped, pageHeight |-> LETTER_HEIGHT,
                     enablePagination |-> paginate]
             ELSE [pageWidth |-> width, pageHeight |-> height,
                   enablePagination |-> paginate]
        ELSE [pageWidth |-> width, pageHeight |-> height,
              enablePagination |-> paginate]

\* line 258: the row does not fit on the page
NeedsNewPageIgnoringMargin(paginate, rowY, rowH, pageH, mrg) ==
  paginate /\ rowY + rowH > pageH

NeedsNewPage(paginate, rowY, rowH, pageH, mrg) ==
  paginate /\ rowY + rowH > pageH - mrg

WidthOrInverted(widths, i) ==
  IF i + 1 <= Len(widths) /\ widths[i + 1].n # 0
    THEN RInt(10 * 6 + padding) ELSE widths[i + 1]

\* colWidths[i] || 10 * 6 + padding
WidthOr(widths, i) ==
  IF i + 1 <= Len(widths) /\ widths[i + 1].n # 0
    THEN widths[i + 1] ELSE RInt(10 * 6 + padding)

\* range.split(":")
SplitRange(range) ==
  LET at == CHOOSE i \in 1..Len(range) :
              range[i] = ChColon /\ \A j \in 1..(i - 1) : range[j] # ChColon
  IN  <<SubSeq(range, 1, at - 1), SubSeq(range, at + 1, Len(range))>>

\* drawBorders: one line per side whose style is set and not "none"
BorderLines(cx, cy, w, h, border, row, col) ==
  LET Drawn(sd) == border[sd] # "unset" /\ border[sd] # "none"
      drawn == SelectSeq(Sides, Drawn)
  IN  [k \in 1..Len(drawn) |->
         [op |-> "line", side |-> drawn[k], x |-> cx, y |-> cy, w |-> w,
          h |-> h, row |-> row, col |-> col]]

RegionCommandsBordersFirst(c, cx, cy, w, h, row, col) ==
  LET align == c.style.align
      tx == IF align = "center" THEN RAdd(cx, RDivInt(w, 2))
            ELSE IF align = "right" THEN RSub(RAdd(cx, w), RInt(2))
            ELSE RAdd(cx, RInt(2))
  IN  (IF c.style.fill
         THEN <<[op |-> "rect", x |-> cx, y |-> cy, w |-> w, h |-> h,
                 row |-> row, col |-> col]>>
         ELSE <<>>)
      \o BorderLines(cx, cy, w, h, c.style.border, row, col)
      \o <<[op |-> "text", text |-> c.text, align |-> align, tx |-> tx,
            ty |-> RAdd(RInt(cy), RAdd(RDivInt(RInt(h), 2),
                                       RDivInt(RInt(fontSize), 3))),
            x |-> cx, y |-> cy, w |-> w, h |-> h, row |-> row, col |-> col]>>

\* lines 300-345 and 353-398: background, then text, then borders
RegionCommands(c, cx, cy, w, h, row, col) ==
  LET align == c.style.align
      tx == IF align = "center" THEN RAdd(cx, RDivInt(w, 2))
            ELSE IF align = "right" THEN RSub(RAdd(cx, w), RInt(2))
            ELSE RAdd(cx, RInt(2))
  IN  (IF c.style.fill
         THEN <<[op |-> "rect", x |-> cx, y |-> cy, w |-> w, h |-> h,
                 row |-> row, col |-> col]>>
         ELSE <<>>)
      \o <<[op |-> "text", text |-> c.text, align |-> align, tx |-> tx,
            ty |-> RAdd(RInt(cy), RAdd(RDivInt(RInt(h), 2),
                                       RDivInt(RInt(fontSize), 3))),
            x |-> cx, y |-> cy, w |-> w, h |-> h, row |-> row, col |-> col]>>
      \o BorderLines(cx, cy, w, h, c.style.border, row, col)

\* lines 264-403: the drawing callback for cell c at 0-based (rowIdx, i)
\* with the cursor at (cx, cy): the commands it issues and its advance of x
DrawnCell(c, rowIdx, i, cx, cy, widths, map) ==
  IF c.mergeInfo # Null
    THEN LET parts == SplitRange(map[c.mergeInfo.key].range)
             startCell == decodeCell(parts[1])
             endCell == decodeCell(parts[2])
         IN  IF startCell.threw \/ endCell.threw
               THEN [threw |-> TRUE]
             ELSE IF ~(rowIdx + 1 = startCell.row /\ i + 1 = startCell.col)
               THEN [threw |-> FALSE, cmds |-> <<>>, dx |-> WidthOr(widths, i)]
             ELSE LET mergeCols == endCell.col - startCell.col + 1
                      mergeRows == endCell.row - startCell.row + 1
                      mergedWidth == RSum(Slice(widths, i, i + mergeCols))
                      mergedHeight == rowHeight * mergeRows
                  IN  [threw |-> FALSE,
                       cmds |-> RegionCommands(c, cx, cy, mergedWidth,
                                               mergedHeight, rowIdx + 1, i + 1),
                       dx |-> WidthOr(widths, i)]
    ELSE LET cellWidth == WidthOr(widths, i)
         IN  [threw |-> FALSE,
              cmds |-> RegionCommands(c, cx, cy, cellWidth, rowHeight,
                                      rowIdx + 1, i + 1),
              dx |-> cellWidth]

\* lines 215-218: the image has a top-left anchor with col and row, and its
\* media has a buffer
HasAnchorAndBuffer(img) ==
  /\ img.tl # Null /\ img.tl.hasCol /\ img.tl.hasRow
  /\ img.buffer

ImageCommandInPixels(img, widths) ==
  [op |-> "addImage", id |-> img.id,
   x |-> RAdd(RInt(margin), RSum(Slice(widths, 0, img.tl.nativeCol))),
   y |-> margin + img.tl.nativeRow * rowHeight,
   w |-> RInt(IF img.ext = Null THEN 0 ELSE img.ext.width),
   h |-> RInt(IF img.ext = Null THEN 0 ELSE img.ext.height)]

\* lines 232-244: doc.addImage(dataURL, 'PNG', imgX, imgY, w, h)
ImageCommand(img, widths) ==
  LET colIndex == img.tl.nativeCol
      rowIndex == img.tl.nativeRow
      pxWidth == IF img.ext = Null THEN 0 ELSE img.ext.width
      pxHeight == IF img.ext = Null THEN 0 ELSE img.ext.height
  IN  [op |-> "addImage", id |-> img.id,
       x |-> RAdd(RInt(margin), RSum(Slice(widths, 0, colIndex))),
       y |-> margin + rowIndex * rowHeight,
       w |-> RDivInt(RInt(pxWidth * 3), 4),
       h |-> RDivInt(RInt(pxHeight * 3), 4)]

\* lines 121-166, one cell
SolveCell ==
  /\ pc = "widths"
  /\ LET c == styledRows[solveAt.row][solveAt.col]
     IN  /\ colWidths' = SolveStep(colWidths, mergeMap, c, solveAt.col - 1)
         /\ lastSolve' =
              [kind |-> IF c.isSecondaryMergeCell THEN "secondary"
                        ELSE IF c.mergeInfo # Null THEN "anchor"
                        ELSE "ordinary",
               row |-> solveAt.row, col |-> solveAt.col,
               required |-> TextWidth(c), before |-> colWidths]
  /\ IF solveAt.col < totalCols
       THEN solveAt' = [solveAt EXCEPT !.col = @ + 1] /\ pc' = pc
     ELSE IF solveAt.row < totalRows
       THEN solveAt' = [row |-> solveAt.row + 1, col |-> 1] /\ pc' = pc
     ELSE solveAt' = Null /\ pc' = "pagesize"
  /\ UNCHANGED <<inputVars, mapVars, pageVars, drawVars, imageVars, notPipe>>

\* lines 167-227: the page size, the images kept, the document created
AdjustPageSize ==
  /\ pc = "pagesize"
  /\ LET size == PageSize(RSum(colWidths), totalRows, enablePagination)
     IN  /\ pageWidth' = size.pageWidth
         /\ pageHeight' = size.pageHeight
         /\ enablePagination' = size.enablePagination
  /\ images' = SelectSeq(worksheetImages, HasAnchorAndBuffer)
  /\ imgAt' = 1
  /\ page' = 1
  /\ pc' = "images"
  /\ UNCHANGED <<inputVars, mapVars, solverVars, x, y, drawAt, cmds, notPipe>>

\* lines 230-249 without the try block: the failure leaves the loop and
\* line 409 turns it into the failure of the call
PlaceImageFatal ==
  /\ pc = "images" /\ imgAt <= Len(images)
  /\ IF images[imgAt].throws
       THEN pc' = "failed" /\ UNCHANGED <<cmds, imgAt>>
       ELSE /\ cmds' = Append(cmds, ImageCommand(images[imgAt], colWidths))
            /\ imgAt' = imgAt + 1
            /\ pc' = pc
  /\ UNCHANGED <<inputVars, mapVars, solverVars, pageVars, images, x, y,
                 drawAt, page, notPipe>>

\* lines 230-249, one image: a failure inside the try block is logged and
\* the loop goes on with the next image
PlaceImage ==
  /\ pc = "images" /\ imgAt <= Len(images)
  /\ cmds' = IF images[imgAt].throws THEN cmds
             ELSE Append(cmds, ImageCommand(images[imgAt], colWidths))
  /\ imgAt' = imgAt + 1
  /\ UNCHANGED <<inputVars, pc, mapVars, solverVars, pageVars, images, x, y,
                 drawAt, page, notPipe>>

\* lines 251-252, after the last image
BeginRows ==
  /\ pc = "images" /\ imgAt > Len(images)
  /\ y' = margin
  /\ drawAt' = [row |-> 1, col |-> 0]
  /\ pc' = "draw"
  /\ UNCHANGED <<inputVars, mapVars, solverVars, pageVars, imageVars, x, page,
                 cmds, notPipe>>

\* the start of a row that breaks the page for the tallest region anchored
\* in the row instead of the single row height
StartRowWholeRegion ==
  /\ pc = "draw" /\ drawAt.col = 0
  /\ x' = RInt(margin)
  /\ LET spans == {1} \cup
                  {mergeMap[p].endRow - mergeMap[p].startRow + 1 :
                     p \in {q \in DOMAIN mergeMap :
                              /\ q[1] = drawAt.row
                              /\ styledRows[q[1]][q[2]].mergeInfo # Null}}
         tallest == CHOOSE n \in spans : \A m \in spans : m <= n
     IN  IF NeedsNewPage(enablePagination, y, rowHeight * tallest,
                         pageHeight, margin)
           THEN /\ cmds' = Append(cmds, [op |-> "addPage"])
                /\ page' = page + 1
                /\ y' = margin
           ELSE UNCHANGED <<cmds, page, y>>
  /\ drawAt' = [drawAt EXCEPT !.col = 1]
  /\ UNCHANGED <<inputVars, pc, mapVars, solverVars, pageVars, imageVars,
                 notPipe>>

\* lines 255-261: the start of a row
StartRow ==
  /\ pc = "draw" /\ drawAt.col = 0
  /\ x' = RInt(margin)
  /\ IF NeedsNewPage(enablePagination, y, rowHeight, pageHeight, margin)
       THEN /\ cmds' = Append(cmds, [op |-> "addPage"])
            /\ page' = page + 1
            /\ y' = margin
       ELSE UNCHANGED <<cmds, page, y>>
  /\ drawAt' = [drawAt EXCEPT !.col = 1]
  /\ UNCHANGED <<inputVars, pc, mapVars, solverVars, pageVars, imageVars, notPipe>>

\* lines 264-403, one cell; a reference that does not decode throws, which
\* line 409 turns into the failure of the call
DrawCell ==
  /\ pc = "draw" /\ drawAt.col >= 1 /\ drawAt.col <= totalCols
  /\ LET c == styledRows[drawAt.row][drawAt.col]
         d == DrawnCell(c, drawAt.row - 1, drawAt.col - 1, x, y, colWidths,
                        mergeMap)
     IN  IF d.threw
           THEN pc' = "failed" /\ UNCHANGED <<x, cmds, drawAt>>
           ELSE /\ cmds' = cmds \o d.cmds
                /\ x' = RAdd(x, d.dx)
                /\ drawAt' = [drawAt EXCEPT !.col = @ + 1]
                /\ pc' = pc
  /\ UNCHANGED <<inputVars, mapVars, solverVars, pageVars, y, page, imageVars, notPipe>>

\* line 404, and after the last row line 408
EndRow ==
  /\ pc = "draw" /\ drawAt.col = totalCols + 1
  /\ y' = y + rowHeight
  /\ IF drawAt.row < totalRows
       THEN drawAt' = [row |-> drawAt.row + 1, col |-> 0] /\ pc' = pc
       ELSE drawAt' = Null /\ pc' = "done"
  /\ UNCHANGED <<inputVars, mapVars, solverVars, pageVars, x, page, cmds,
                 imageVars, notPipe>>

(***************************************************************************)
(* Inputs of the conversion.                                               *)
(***************************************************************************)
MaxRows == 2
MaxMergeList == 2
ColCounts == 1..3

CellName ==
  [text |-> "Name", tw |-> 60,
   style |-> [fill |-> TRUE, align |-> "center",
              border |-> [sd \in {"top", "left", "bottom", "right"} |->
                            IF sd = "right" THEN "none" ELSE "thin"]]]

CellAge ==
  [text |-> "Age", tw |-> 25,
   style |-> [EmptyStyle EXCEPT !.border["bottom"] = "thin"]]

CellWide ==
  [text |-> "wide", tw |-> MAX_SIZE,
   style |-> [EmptyStyle EXCEPT !.align = "right"]]

Contents == {CellName, CellAge}

\* the merge regions inside a rows x cols grid: two cells or more
Regions(rows, cols) ==
  {[top |-> t, left |-> l, bottom |-> b, right |-> r] :
     t \in 1..rows, l \in 1..cols, b \in 1..rows, r \in 1..cols}
  \ {m \in [top : 1..rows, left : 1..cols, bottom : 1..rows, right : 1..cols] :
       m.top > m.bottom \/ m.left > m.right
         \/ (m.top = m.bottom /\ m.left = m.right)}

SeqsUpTo(S, k) == UNION {[1..n -> S] : n \in 0..k}

SheetsUpTo(rows, cols, k) ==
  UNION {[P -> Contents] :
           P \in {Q \in SUBSET ((1..rows) \X (1..cols)) : Cardinality(Q) <= k}}

\* the row counts at which the page logic changes: rows that fill a letter
\* page, and rows whose table is higher than MAX_SIZE
RowsPerPage == (LETTER_HEIGHT - 2 * margin) \div rowHeight
MinOversizeRows == (MAX_SIZE - (10 + 2 * margin + 40)) \div rowHeight + 1

\* the locals before the first statement that reads them
PipeStart ==
  /\ pc = "merges" /\ mergeIdx = 0 /\ mergeMap = <<>> /\ styledRows = <<>>
  /\ colWidths = <<>> /\ solveAt = Null /\ lastSolve = Null
  /\ enablePagination = paginationArg /\ pageWidth = Null /\ pageHeight = 0
  /\ images = <<>> /\ imgAt = 0
  /\ x = Null /\ y = 0 /\ drawAt = Null /\ page = 0 /\ cmds = <<>>

\* small grids: no or one merge region, up to two populated cells
Init ==
  /\ CodecIdle /\ TextIdle
  /\ totalRows \in 1..MaxRows
  /\ totalCols \in ColCounts
  /\ merges \in SeqsUpTo(Regions(totalRows, totalCols), 1)
  /\ sheet \in SheetsUpTo(totalRows, totalCols, 2)
  /\ paginationArg = FALSE
  /\ worksheetImages = <<>>
  /\ PipeStart

\* the steps of a conversion whose worksheet has no image
Next == AddRegion \/ BuildRow \/ SolveCell \/ AdjustPageSize \/ BeginRows
          \/ StartRow \/ DrawCell \/ EndRow

Spec == Init /\ [][Next]_vars

\* merge lists: every list of up to MaxMergeList regions, overlapping or
\* not, on the grids of two columns, and every list of up to two regions
\* on the grid of 3 x 4; the map and the styled rows are built from them
MergeGrids == {<<1, 2>>, <<2, 2>>, <<3, 4>>}

MergeMapInit ==
  /\ CodecIdle /\ TextIdle
  /\ \E g \in MergeGrids : totalRows = g[1] /\ totalCols = g[2]
  /\ merges \in SeqsUpTo(Regions(totalRows, totalCols),
                        IF totalCols = 2 THEN MaxMergeList ELSE 2)
  /\ sheet = <<>>
  /\ paginationArg = FALSE
  /\ worksheetImages = <<>>
  /\ PipeStart

MergeMapNext == AddRegion \/ BuildRow

SpecMergeMap == MergeMapInit /\ [][MergeMapNext]_vars

\* tall and wide tables: the row counts around a page's and MAX_SIZE's
\* limits, with or without a cell too wide for MAX_SIZE, with no region, a
\* region in the first two rows, or one over the last row of the first
\* letter page and the row after it
LayoutRowCounts ==
  {1, 2, RowsPerPage, RowsPerPage + 1, 2 * RowsPerPage + 1,
   MinOversizeRows - 1, MinOversizeRows}

AcrossPages(cols) ==
  {[top |-> RowsPerPage, left |-> 1, bottom |-> RowsPerPage + 1, right |-> rc] :
     rc \in 1..cols}

LayoutInit ==
  /\ CodecIdle /\ TextIdle
  /\ totalRows \in LayoutRowCounts
  /\ totalCols \in (IF totalRows > 2 * RowsPerPage + 1 THEN {1} ELSE {1, 2})
  /\ merges \in (IF totalRows > 2 * RowsPerPage + 1 THEN {<<>>}
                 ELSE SeqsUpTo(Regions(IF totalRows > 2 THEN 2 ELSE totalRows,
                                       totalCols), 1)
                        \cup (IF totalRows > RowsPerPage
                                THEN {<<m>> : m \in AcrossPages(totalCols)}
                                ELSE {}))
  /\ sheet \in {<<>>} \cup {[p \in {<<1, 1>>} |-> ct] : ct \in {CellName, CellWide}}
  /\ paginationArg \in BOOLEAN
  /\ worksheetImages = <<>>
  /\ PipeStart

SpecLayout == LayoutInit /\ [][Next]_vars

\* worksheets with images: an image is the range and the media the code
\* reads (range.tl with col, row, nativeCol, nativeRow; range.ext; the
\* media's buffer) and whether placing it fails inside the try block
MaxImages == 2

Anchor(c, r) ==
  [hasCol |-> TRUE, hasRow |-> TRUE, nativeCol |-> c, nativeRow |-> r]

Image(tl, ext, buffer, throws) ==
  [id |-> 0, tl |-> tl, ext |-> ext, buffer |-> buffer, throws |-> throws]

Extent(w, h) == [width |-> w, height |-> h]

ImgLogo == Image(Anchor(0, 0), Extent(100, 50), TRUE, FALSE)
ImgChart == Image(Anchor(1, 1), Extent(41, 30), TRUE, FALSE)
\* anchored right of the last column and below the first letter page
ImgFar == Image(Anchor(3, 40), Extent(10, 10), TRUE, FALSE)
ImgBroken == Image(Anchor(1, 0), Extent(20, 20), TRUE, TRUE)
ImgNoBuffer == Image(Anchor(0, 0), Extent(20, 20), FALSE, FALSE)
ImgNoAnchor == Image(Null, Extent(20, 20), TRUE, FALSE)
ImgNoRow ==
  Image([Anchor(0, 0) EXCEPT !.hasRow = FALSE], Extent(20, 20), TRUE, FALSE)
ImgNoExtent == Image(Anchor(0, 1), Null, TRUE, FALSE)

\* every list of up to MaxImages of three of them, and each other alone;
\* imageId is the position in the list
ImageLists ==
  LET lists ==
        SeqsUpTo({ImgChart, ImgBroken, ImgNoBuffer}, MaxImages)
          \cup {<<i>> : i \in {ImgLogo, ImgFar, ImgNoAnchor, ImgNoRow,
                                ImgNoExtent}}
  IN  {[k \in 1..Len(q) |-> [q[k] EXCEPT !.id = k]] : q \in lists}

\* one row or a row more than a letter page holds, two columns, merged in
\* the first row or not, the first cell narrow or wider than MAX_SIZE
ImagesInit ==
  /\ CodecIdle /\ TextIdle
  /\ totalRows \in {1, RowsPerPage + 1}
  /\ totalCols = 2
  /\ merges \in {<<>>, <<[top |-> 1, left |-> 1, bottom |-> 1, right |-> 2]>>}
  /\ sheet \in {[p \in {<<1, 1>>} |-> ct] : ct \in {CellName, CellWide}}
  /\ paginationArg \in BOOLEAN
  /\ worksheetImages \in ImageLists
  /\ PipeStart

ImagesNext == Next \/ PlaceImage

SpecImages == ImagesInit /\ [][ImagesNext]_vars

\* C11: a formula value that carries an error code resolves to "#" followed
\* by the upper-cased error code, also when the value carries an evaluated
\* result, a text field, rich text, or the cell has cached rendered text.
C11_FormulaErrorFirst ==
  ( /\ textPc = "done" /\ cell.value.t = "object"
    /\ Truthy(cell.value.formula) /\ Truthy(cell.value.error) ) =>
      cellText = <<ChHash>> \o ToUpperCase(cell.value.error.str)

(***************************************************************************)
(* Claims about the merge map (checked under SpecMergeMap).                *)
(***************************************************************************)
Covers(m, r, c) == m.top <= r /\ r <= m.bottom /\ m.left <= c /\ c <= m.right

\* the indices, among the first n regions of the list, of those covering (r, c)
Covering(n, r, c) == {k \in 1..n : Covers(merges[k], r, c)}

LastCovering(n, r, c) ==
  CHOOSE k \in Covering(n, r, c) : \A j \in Covering(n, r, c) : j <= k

RefersTo(entry, m) ==
  /\ entry.startRow = m.top /\ entry.startCol = m.left
  /\ entry.endRow = m.bottom /\ entry.endCol = m.right

ExampleRegion == [top |-> 2, left |-> 2, bottom |-> 3, right |-> 4]

\* C7: the merge map has an entry for (r, c) iff some region covers (r, c);
\* the entry refers to the last region of the list that covers it; the cell
\* is the anchor iff (r, c) is that region's (top, left) and secondary
\* otherwise.  The single region (2,2)-(3,4) gives exactly 6 entries, the
\* anchor (2,2) and 5 secondary cells, all referring to that region.
C7_MergeMapLastRegionWins ==
  /\ DOMAIN mergeMap =
       {p \in (1..totalRows) \X (1..totalCols) :
          Covering(mergeIdx, p[1], p[2]) # {}}
  /\ \A p \in DOMAIN mergeMap :
       RefersTo(mergeMap[p], merges[LastCovering(mergeIdx, p[1], p[2])])
  /\ \A r \in 1..Len(styledRows) : \A c \in 1..totalCols :
       LET covered == Covering(Len(merges), r, c) # {}
           last == merges[LastCovering(Len(merges), r, c)]
           isAnchor == covered /\ r = last.top /\ c = last.left
           sc == styledRows[r][c]
       IN  /\ sc.isSecondaryMergeCell <=> (covered /\ ~isAnchor)
           /\ sc.mergeInfo # Null <=> isAnchor
           /\ isAnchor => sc.mergeInfo.key = <<r, c>>
  /\ (merges = <<ExampleRegion>> /\ pc = "widths") =>
       /\ Cardinality(DOMAIN mergeMap) = 6
       /\ \A p \in DOMAIN mergeMap : RefersTo(mergeMap[p], ExampleRegion)
       /\ styledRows[2][2].mergeInfo # Null
       /\ Cardinality({p \in DOMAIN mergeMap :
                         styledRows[p[1]][p[2]].isSecondaryMergeCell}) = 5

\* C7 witness: (2,2)-(3,4) followed by (1,1)-(2,2), which overlaps it in
\* (2,2): the map has 9 entries and (2,2), the first region's anchor, is a
\* secondary cell of the second.
C7_Witness ==
  /\ pc = "widths"
  /\ merges = <<ExampleRegion, [top |-> 1, left |-> 1, bottom |-> 2, right |-> 2]>>
  /\ Cardinality(DOMAIN mergeMap) = 9
  /\ mergeMap[<<2, 2>>].startRow = 1
  /\ styledRows[2][2].isSecondaryMergeCell
  /\ styledRows[1][1].mergeInfo # Null

(***************************************************************************)
(* Claims about the solver and the drawing pass (checked under Spec).      *)
(***************************************************************************)
NonOverlapping(ms) ==
  \A i \in 1..Len(ms) : \A j \in 1..Len(ms) :
    i < j => RegionCells(ms[i]) \cap RegionCells(ms[j]) = {}

\* margin + sum(colWidths[0..i))
ColumnX(i) == RAdd(RInt(margin), RSum(SubSeq(colWidths, 1, i)))

IsDrawCommand(cmd) == cmd.op \in {"rect", "line", "text"}

\* C5: with pairwise disjoint regions, a region is drawn exactly once, from
\* its anchor cell, as a rectangle as wide as its spanned columns and
\* rowHeight times its spanned rows high; a secondary cell issues no draw
\* command at all, not even a text command with empty text.
C5_OnlyAnchorsDrawMergedRegions ==
  NonOverlapping(merges) =>
    /\ \A k \in 1..Len(cmds) :
         IsDrawCommand(cmds[k]) =>
           LET sc == styledRows[cmds[k].row][cmds[k].col]
           IN  /\ ~sc.isSecondaryMergeCell
               /\ sc.mergeInfo # Null =>
                    LET e == mergeMap[sc.mergeInfo.key]
                    IN  /\ cmds[k].w = RSum(SubSeq(colWidths, e.startCol, e.endCol))
                        /\ cmds[k].h = rowHeight * (e.endRow - e.startRow + 1)
    /\ \A j \in 1..Len(merges) :
         (pc = "done" \/ (pc = "draw" /\ drawAt.row > merges[j].bottom)) =>
           Cardinality({k \in 1..Len(cmds) :
                          /\ cmds[k].op = "text"
                          /\ Covers(merges[j], cmds[k].row, cmds[k].col)}) = 1

CommandsOf(r, c) ==
  {k \in 1..Len(cmds) :
     IsDrawCommand(cmds[k]) /\ cmds[k].row = r /\ cmds[k].col = c}

\* the region's commands are: one fill rectangle iff a fill colour is set,
\* first of all; one line for each side whose style is set and not "none";
\* exactly one text command; nothing of another region in between
RegionCommandsComplete(r, c) ==
  LET K == CommandsOf(r, c)
      style == styledRows[r][c].style
      sides == {sd \in DOMAIN style.border :
                  style.border[sd] # "unset" /\ style.border[sd] # "none"}
  IN  /\ \A j \in K : \A k \in K : \A i \in j..k : i \in K
      /\ Cardinality({k \in K : cmds[k].op = "text"}) = 1
      /\ Cardinality({k \in K : cmds[k].op = "rect"}) =
           IF style.fill THEN 1 ELSE 0
      /\ \A j \in K : cmds[j].op = "rect" => \A k \in K : j <= k
      /\ {cmds[k].side : k \in {j \in K : cmds[j].op = "line"}} = sides
      /\ Cardinality({k \in K : cmds[k].op = "line"}) = Cardinality(sides)

Placed(r, c) ==
  CommandsOf(r, c) # {} /\ ~styledRows[r][c].isSecondaryMergeCell

\* C13 as stated: for every placed region the commands are the fill
\* rectangle (if a fill colour is set), then the border lines of the sides
\* set and not "none", then exactly one text command; no border line of a
\* region comes after its text command.
C13_FillBordersText ==
  \A r \in 1..Len(styledRows) : \A c \in 1..totalCols :
    Placed(r, c) =>
      /\ RegionCommandsComplete(r, c)
      /\ \A j \in CommandsOf(r, c) : \A k \in CommandsOf(r, c) :
           (cmds[j].op = "line" /\ cmds[k].op = "text") => j < k

\* C13: for every placed region the commands are the fill rectangle (if a
\* fill colour is set), then exactly one text command, then the border
\* lines of the sides set and not "none"; no border line of a region comes
\* before its text command.
C13_FillTextBorders ==
  \A r \in 1..Len(styledRows) : \A c \in 1..totalCols :
    Placed(r, c) =>
      /\ RegionCommandsComplete(r, c)
      /\ \A j \in CommandsOf(r, c) : \A k \in CommandsOf(r, c) :
           (cmds[j].op = "line" /\ cmds[k].op = "text") => k < j

\* C13 witness: a merge anchor with a fill colour and three border sides
\* has been drawn: its rectangle, then its text, then its three lines.
C13_Witness ==
  \E r \in 1..Len(styledRows) : \E c \in 1..totalCols :
    /\ styledRows[r][c].mergeInfo # Null
    /\ styledRows[r][c].style.fill
    /\ \E k \in 1..Len(cmds) :
         /\ k + 4 <= Len(cmds)
         /\ \A i \in k..(k + 4) : cmds[i].row = r /\ cmds[i].col = c
         /\ cmds[k].op = "rect" /\ cmds[k + 1].op = "text"
         /\ \A i \in (k + 2)..(k + 4) : cmds[i].op = "line"

(***************************************************************************)
(* Claims about the page (checked under SpecLayout).                       *)
(***************************************************************************)

\* rows placed from rowY on, by the rule of line 258: each row's y and
\* whether a page boundary precedes it
RECURSIVE PlacedRows(_, _, _, _, _, _)
PlacedRows(n, rowY, paginate, rowH, pageH, mrg) ==
  IF n = 0 THEN <<>>
  ELSE LET brk == NeedsNewPage(paginate, rowY, rowH, pageH, mrg)
           at == IF brk THEN mrg ELSE rowY
       IN  <<[y |-> at, newPage |-> brk]>>
             \o PlacedRows(n - 1, at + rowH, paginate, rowH, pageH, mrg)

\* C4: a page boundary is emitted immediately before a row iff pagination
\* is enabled and y + rowHeight > pageHeight - margin at that moment; y is
\* then reset to the top margin before the row is placed; y advances by
\* exactly one rowHeight after each row and is not changed within a row.
\* With rowHeight 20, pageHeight 100 and margin 10 the rows are placed at
\* y = 10, 30, 50, 70 and the boundary comes before the 5th row.
C4_PageBreakBeforeRow ==
  /\ PlacedRows(5, 10, TRUE, 20, 100, 10) =
       <<[y |-> 10, newPage |-> FALSE], [y |-> 30, newPage |-> FALSE],
         [y |-> 50, newPage |-> FALSE], [y |-> 70, newPage |-> FALSE],
         [y |-> 10, newPage |-> TRUE]>>
  /\ [][ /\ (pc = "draw" /\ drawAt.col = 0) =>
              LET brk == enablePagination /\ y + rowHeight > pageHeight - margin
              IN  /\ brk => /\ cmds' = Append(cmds, [op |-> "addPage"])
                            /\ page' = page + 1
                            /\ y' = margin
                  /\ ~brk => cmds' = cmds /\ page' = page /\ y' = y
                  /\ drawAt' = [row |-> drawAt.row, col |-> 1]
         /\ (pc = "draw" /\ drawAt.col >= 1 /\ drawAt.col <= totalCols) =>
              /\ y' = y /\ page' = page
              /\ \A k \in (Len(cmds) + 1)..Len(cmds') :
                   cmds'[k].op # "addPage" /\ cmds'[k].y = y
         /\ (pc = "draw" /\ drawAt.col = totalCols + 1) =>
              y' = y + rowHeight /\ page' = page /\ cmds' = cmds
     ]_vars

\* C4 witness: with pagination on, the 35th row has been started on a
\* second page, at the top margin, the first 34 rows being on the first.
C4_Witness ==
  /\ pc = "draw" /\ enablePagination /\ pageHeight = LETTER_HEIGHT
  /\ drawAt = [row |-> 35, col |-> 1]
  /\ page = 2 /\ y = margin
  /\ cmds[Len(cmds)] = [op |-> "addPage"]

\* C9: after the page-size adjustment the page width and the page height
\* are each at most 14400, and whenever the computed page height exceeded
\* 14400 the rows are placed with pagination on, also when the caller
\* passed enablePagination = false.
C9_PageSizeCapped ==
  pc \in {"draw", "done"} =>
    /\ ~RLess(RInt(14400), pageWidth)
    /\ pageHeight <= 14400
    /\ (totalRows * rowHeight + 10 + 2 * margin + 40 > 14400) => enablePagination

\* C9 witness: 713 rows and a column wider than the limit, pagination not
\* requested: the page is capped to 14400 x 792 and pagination is on.
C9_Witness ==
  /\ pc = "draw" /\ paginationArg = FALSE
  /\ totalRows = 713
  /\ RLess(RInt(14400), RAdd(RSum(colWidths), RInt(2 * margin)))
  /\ pageWidth = RInt(14400) /\ pageHeight = 792
  /\ enablePagination

(***************************************************************************)
(* Claims about the images (checked under SpecImages).                     *)
(***************************************************************************)
ImageCommands == SelectSeq(cmds, LAMBDA cmd : cmd.op = "addImage")

\* the place-image commands issued for the image of worksheetImages[k]
PlacedAs(k) == {j \in 1..Len(cmds) : cmds[j].op = "addImage" /\ cmds[j].id = k}

ValidImage(img) ==
  img.tl # Null /\ img.tl.hasCol /\ img.tl.hasRow /\ img.buffer

\* the command the image must be placed with: x = margin +
\* sum(colWidths[0..col)), y = margin + row * rowHeight, extent * 0.75
PlacedWhere(cmd, img) ==
  LET upTo == IF img.tl.nativeCol > totalCols THEN totalCols
              ELSE img.tl.nativeCol
      px == IF img.ext = Null THEN Extent(0, 0) ELSE img.ext
  IN  /\ cmd.x = ColumnX(upTo)
      /\ cmd.y = margin + img.tl.nativeRow * rowHeight
      /\ RAdd(RAdd(cmd.w, cmd.w), RAdd(cmd.w, cmd.w)) = RInt(3 * px.width)
      /\ RAdd(RAdd(cmd.h, cmd.h), RAdd(cmd.h, cmd.h)) = RInt(3 * px.height)

ImagesBeforeCells ==
  \A j \in 1..Len(cmds) : \A k \in 1..Len(cmds) :
    (cmds[j].op = "addImage" /\ cmds[k].op # "addImage") => j < k

AllRowsDrawn ==
  \A r \in 1..totalRows : \A c \in 1..totalCols :
    ~styledRows[r][c].isSecondaryMergeCell =>
      Cardinality({k \in 1..Len(cmds) :
                     /\ cmds[k].op = "text"
                     /\ cmds[k].row = r /\ cmds[k].col = c}) = 1

\* the cells drawn so far: every cell before the one the loop is at
DrawnUpTo(r, c) ==
  \A i \in 1..totalRows : \A j \in 1..totalCols :
    (i < r \/ (i = r /\ j < c)) =>
      \E k \in 1..Len(cmds) :
        cmds[k].op = "text" /\ cmds[k].row = i /\ cmds[k].col = j

\* C12: a failure while placing one image is not fatal.  The call never
\* fails.  The image loop always has a next step, also after an image that
\* failed.  Once the loop is over, the image that failed has been skipped
\* and every other image with an anchor and a buffer has been placed, in
\* order.  The row loop then draws every cell in turn, and when the
\* document is saved all rows have been drawn.
C12_ImageFailureNotFatal ==
  /\ pc # "failed"
  /\ pc = "images" => ENABLED (PlaceImage \/ BeginRows)
  /\ pc \in {"draw", "done"} =>
       /\ imgAt = Len(images) + 1
       /\ \A k \in 1..Len(worksheetImages) :
            Cardinality(PlacedAs(k)) =
              IF ValidImage(worksheetImages[k]) /\ ~worksheetImages[k].throws
                THEN 1 ELSE 0
       /\ \A j \in 1..Len(ImageCommands) : \A k \in 1..Len(ImageCommands) :
            j < k => ImageCommands[j].id < ImageCommands[k].id
  /\ pc = "draw" =>
       /\ drawAt.row \in 1..totalRows /\ drawAt.col \in 0..(totalCols + 1)
       /\ DrawnUpTo(drawAt.row, drawAt.col)
  /\ pc = "done" => AllRowsDrawn

\* C12 witness: the first image failed, the second was placed after it, and
\* the document with all its 35 rows, the last on a second page, was saved.
C12_Witness ==
  /\ pc = "done" /\ Len(worksheetImages) = 2
  /\ worksheetImages[1].throws /\ PlacedAs(1) = {}
  /\ PlacedAs(2) # {}
  /\ totalRows = RowsPerPage + 1 /\ page = 2
  /\ cmds[Len(cmds)].op = "text" /\ cmds[Len(cmds)].row = totalRows

RowsOnPage == (pageHeight - 2 * margin) \div rowHeight

\* C15: whether a page boundary precedes a row depends only on y, the one
\* rowHeight, pageHeight and margin, never on the height of a region
\* anchored in the row: whatever the merge regions are, a row that has been
\* started is at y = margin + rowHeight * ((row - 1) mod rows per page), on
\* page 1 + (row - 1) div rows per page, when pagination is on, and at
\* margin + rowHeight * (row - 1) on page 1 when it is off.  (So a region
\* over the last row of a page and the next row is drawn across the bottom
\* margin while the next row goes to the following page: the witness.)
C15_PageBreakIgnoresMergeHeight ==
  (pc = "draw" /\ drawAt.col >= 1) =>
    IF enablePagination
      THEN /\ y = margin + rowHeight * ((drawAt.row - 1) % RowsOnPage)
           /\ page = 1 + (drawAt.row - 1) \div RowsOnPage
      ELSE /\ y = margin + rowHeight * (drawAt.row - 1)
           /\ page = 1

\* C15 witness: pagination is on; the anchor of a region over rows 34 and
\* 35 was drawn on the first page with a rectangle 2 * rowHeight high whose
\* bottom is below pageHeight - margin; then the page boundary was emitted
\* and row 35, covered by the same region, started on the second page.
C15_Witness ==
  /\ pc = "draw" /\ enablePagination
  /\ drawAt = [row |-> RowsPerPage + 1, col |-> 1]
  /\ page = 2 /\ y = margin
  /\ styledRows[RowsPerPage + 1][1].isSecondaryMergeCell
  /\ mergeMap[<<RowsPerPage + 1, 1>>].startRow = RowsPerPage
  /\ cmds[Len(cmds)] = [op |-> "addPage"]
  /\ \E k \in 1..Len(cmds) :
       /\ cmds[k].op = "text"
       /\ cmds[k].row = RowsPerPage /\ cmds[k].col = 1
       /\ cmds[k].h = 2 * rowHeight
       /\ cmds[k].y + rowHeight <= pageHeight - margin
       /\ cmds[k].y + cmds[k].h > pageHeight - margin

\* text width + padding + extraSpace
Required(c) == RInt(c.tw + padding + extraSpace)

SolverFinished == pc \in {"pagesize", "images", "draw", "done"}

HeightOf(n) == n * rowHeight + 10 + 2 * margin + 40

\* on a page as high as the table of n rows, no row of the n needs a new
\* page, for every n whose page height does not exceed 14400
NoBreakOnWholeTablePage ==
  \A n \in 1..(MinOversizeRows - 1) : \A j \in 0..(n - 1) :
    /\ HeightOf(n) <= 14400
    /\ ~(margin + j * rowHeight + rowHeight > HeightOf(n) - margin)

\* C17: when neither the computed page width nor the computed page height
\* exceeds 14400 the page height is totalRows * rowHeight + 10 + 2 * margin
\* + 40, and also with pagination on no page boundary is emitted: all rows
\* are placed on one page, for every number of rows.
C17_NoBreakWhenPageFitsTable ==
  /\ NoBreakOnWholeTablePage
  /\ ( /\ pc \in {"draw", "done"}
       /\ ~RLess(RInt(14400), RAdd(RSum(colWidths), RInt(2 * margin)))
       /\ HeightOf(totalRows) <= 14400 ) =>
         /\ pageHeight = HeightOf(totalRows)
         /\ page = 1
         /\ \A k \in 1..Len(cmds) : cmds[k].op # "addPage"
         /\ pc = "draw" => y <= margin + rowHeight * totalRows

\* C17 witness: 69 rows with pagination requested, page height 1530: the
\* 36th row is placed on the first page, below where a letter page ends,
\* and no page boundary has been emitted.
C17_Witness ==
  /\ pc = "draw" /\ paginationArg /\ enablePagination
  /\ totalRows = 2 * RowsPerPage + 1
  /\ pageHeight = 1530 /\ page = 1
  /\ drawAt = [row |-> RowsPerPage + 2, col |-> 1]
  /\ y = margin + rowHeight * (RowsPerPage + 1)
  /\ y + rowHeight > LETTER_HEIGHT - margin
  /\ cmds # <<>> /\ cmds[Len(cmds)].row = RowsPerPage + 1

=============================================================================
